---- MODULE Spec2Model ----
(***************************************************************************)
(* A model of package view (src/view.go): a binary trie over 32-bit IPv4   *)
(* addresses that binds subnets to areas and answers longest-prefix-match  *)
(* lookups, together with the text loader that feeds it.                   *)
(*                                                                         *)
(* A uint32 is modelled as the set of the positions (0..31) of its 1 bits, *)
(* so that masks, shifts and tests are the bitwise operations of the       *)
(* source and no value exceeds TLC's integers.                             *)
(* Pointers are indices into a heap: nodes (the viewNode objects, index 1  *)
(* being v.root) and infos (the ViewInfo objects); Nil is the nil pointer. *)
(* Text ([]byte, string) is a sequence of one-character strings.           *)
(***************************************************************************)
EXTENDS Integers, Sequences, FiniteSets, TLC

VARIABLES
    nodes,      \* heap of viewNode; nodes[Root] is v.root
    infos,      \* heap of ViewInfo, one per &ViewInfo{...} allocation
    lineNum,    \* v.lineNum
    fileName,   \* v.fileName
    calls,      \* history: the viewInsert calls made so far, in order
    ret,        \* what the last operation returned
    quad,       \* codec: the [4]uint8 handed to viewUintAddr
    packed      \* codec: the uint32 viewUintAddr returned

vars == <<nodes, infos, lineNum, fileName, calls, ret, quad, packed>>

----------------------------------------------------------------------------
(* Bounds of the model *)

MaxInserts == 2     \* viewInsert calls made directly in one behaviour
MaxLineNum == 4     \* Init is called only while v.lineNum is below this

----------------------------------------------------------------------------
(* uint32 and uint8 *)

AddrBits == 32

Nil == 0

Root == 1

\* the positions of the bits of a uint32: 31 is the most significant
BitPos == 0..(AddrBits - 1)

\* 0x80000000
TopBit == {AddrBits - 1}

\* bit >>= 1
Shr1(bit) == {i - 1 : i \in {j \in bit : j > 0}}

\* unetaddr&bit != 0
AndNonZero(unetaddr, bit) == unetaddr \cap bit # {}

\* uint8(baddr): the low 8 bits of an int
Uint8(baddr) == baddr % 256

\* the bits set in byte b, moved up by shift: uint32(b) << shift
ByteShl(b, shift) == {shift + j : j \in {k \in 0..7 : (b \div (2 ^ k)) % 2 = 1}}

\* mutant of viewUintAddr: the bytes read in little-endian order
viewUintAddrLittleEndian(netaddr) ==
    ByteShl(netaddr[4], 24) \cup ByteShl(netaddr[3], 16) \cup
    ByteShl(netaddr[2], 8) \cup ByteShl(netaddr[1], 0)

\* binary.Read(buf, binary.BigEndian, &unetaddr) over netaddr[:]
viewUintAddr(netaddr) ==
    ByteShl(netaddr[1], 24) \cup ByteShl(netaddr[2], 16) \cup
    ByteShl(netaddr[3], 8) \cup ByteShl(netaddr[4], 0)

----------------------------------------------------------------------------
(* Errors *)

errBadLine == "illegal line format"
errBadSubnet == "illegal subnet format"
errDupNet == "duplication subnet not allowed"
errBadAddress == "illegal address format"
errOpen == "open: no such file or directory"

\* an error value: its message and, when fmt.Errorf annotated it, the line
Err(msg) == [msg |-> msg, line |-> 0]
ErrAt(msg, line) == [msg |-> msg, line |-> line]
NoErr == [msg |-> "", line |-> 0]

----------------------------------------------------------------------------
(* The trie *)

\* &viewNode{}
NewNode == [left |-> Nil, right |-> Nil, vinfo |-> Nil]

\* the child the walk takes at node for this bit
Child(ns, node, unetaddr, bit) ==
    IF AndNonZero(unetaddr, bit) THEN ns[node].right ELSE ns[node].left

\* the first loop of viewInsert: walk the existing path
RECURSIVE InsertWalk(_, _, _, _, _, _)
InsertWalk(ns, unetaddr, bit, node, next, mask) ==
    IF mask > 0
    THEN LET nx == Child(ns, node, unetaddr, bit)
         IN  IF nx = Nil
             THEN [node |-> node, next |-> Nil, bit |-> bit, mask |-> mask]
             ELSE InsertWalk(ns, unetaddr, Shr1(bit), nx, nx, mask - 1)
    ELSE [node |-> node, next |-> next, bit |-> bit, mask |-> mask]

\* mutant of InsertCreate: the second loop without its bit >>= 1
RECURSIVE InsertCreateNoShift(_, _, _, _, _, _)
InsertCreateNoShift(ns, unetaddr, bit, node, mask, info) ==
    IF mask > 0
    THEN LET next == Len(ns) + 1
             linked == IF AndNonZero(unetaddr, bit)
                       THEN [ns EXCEPT ![node].right = next]
                       ELSE [ns EXCEPT ![node].left = next]
         IN  InsertCreateNoShift(Append(linked, NewNode), unetaddr, bit,
                                 next, mask - 1, info)
    ELSE [ns EXCEPT ![node].vinfo = info]

\* mutant of InsertCreate: every new node is linked as the left child
RECURSIVE InsertCreateAlwaysLeft(_, _, _, _, _, _)
InsertCreateAlwaysLeft(ns, unetaddr, bit, node, mask, info) ==
    IF mask > 0
    THEN LET next == Len(ns) + 1
         IN  InsertCreateAlwaysLeft(
                 Append([ns EXCEPT ![node].left = next], NewNode),
                 unetaddr, Shr1(bit), next, mask - 1, info)
    ELSE [ns EXCEPT ![node].vinfo = info]

\* the second loop of viewInsert: create the rest of the path, attach info
RECURSIVE InsertCreate(_, _, _, _, _, _)
InsertCreate(ns, unetaddr, bit, node, mask, info) ==
    IF mask > 0
    THEN LET next == Len(ns) + 1
             linked == IF AndNonZero(unetaddr, bit)
                       THEN [ns EXCEPT ![node].right = next]
                       ELSE [ns EXCEPT ![node].left = next]
         IN  InsertCreate(Append(linked, NewNode), unetaddr, Shr1(bit),
                          next, mask - 1, info)
    ELSE [ns EXCEPT ![node].vinfo = info]

\* mutant of InsertAttach: node.vinfo is not tested, the entry is attached
\* whatever the node holds
InsertAttachOverwrite(ns, unetaddr, w, info) ==
    IF w.next # Nil
    THEN [nodes |-> [ns EXCEPT ![w.node].vinfo = info], err |-> NoErr]
    ELSE [nodes |-> InsertCreate(ns, unetaddr, w.bit, w.node, w.mask, info),
          err |-> NoErr]

\* mutant of InsertAttach: node.vinfo = info is done before the test that
\* returns errDupNet
InsertAttachThenReject(ns, unetaddr, w, info) ==
    IF w.next # Nil
    THEN IF ns[w.node].vinfo # Nil
         THEN [nodes |-> [ns EXCEPT ![w.node].vinfo = info],
               err |-> Err(errDupNet)]
         ELSE [nodes |-> [ns EXCEPT ![w.node].vinfo = info], err |-> NoErr]
    ELSE [nodes |-> InsertCreate(ns, unetaddr, w.bit, w.node, w.mask, info),
          err |-> NoErr]

\* the part of viewInsert that follows the walk
InsertAttach(ns, unetaddr, w, info) ==
    IF w.next # Nil
    THEN IF ns[w.node].vinfo # Nil
         THEN [nodes |-> ns, err |-> Err(errDupNet)]
         ELSE [nodes |-> [ns EXCEPT ![w.node].vinfo = info], err |-> NoErr]
    ELSE [nodes |-> InsertCreate(ns, unetaddr, w.bit, w.node, w.mask, info),
          err |-> NoErr]

viewInsert(ns, unetaddr, mask, info) ==
    InsertAttach(ns, unetaddr,
                 InsertWalk(ns, unetaddr, TopBit, Root, Root, mask), info)

\* mutant of LookupWalk: the first entry met is kept, later ones do not
\* overwrite it
RECURSIVE LookupWalkKeepFirst(_, _, _, _, _)
LookupWalkKeepFirst(ns, unetaddr, bit, node, info) ==
    IF node = Nil
    THEN info
    ELSE LookupWalkKeepFirst(ns, unetaddr, Shr1(bit),
                             Child(ns, node, unetaddr, bit),
                             IF info = Nil THEN ns[node].vinfo ELSE info)

\* the loop of viewLookup
RECURSIVE LookupWalk(_, _, _, _, _)
LookupWalk(ns, unetaddr, bit, node, info) ==
    IF node = Nil
    THEN info
    ELSE LookupWalk(ns, unetaddr, Shr1(bit), Child(ns, node, unetaddr, bit),
                    IF ns[node].vinfo # Nil THEN ns[node].vinfo ELSE info)

\* mutant of viewLookup: the walk starts at the child of the root, so the
\* entry of the root is never seen
viewLookupSkipRoot(ns, unetaddr) ==
    LookupWalk(ns, unetaddr, Shr1(TopBit), Child(ns, Root, unetaddr, TopBit),
               Nil)

viewLookup(ns, unetaddr) == LookupWalk(ns, unetaddr, TopBit, Root, Nil)

----------------------------------------------------------------------------
(* Text: package bytes and strconv *)

\* asciiSpace of package bytes ('\v' cannot be written in a TLA+ string)
WhiteSpace == {" ", "\t", "\n", "\r", "\f"}

\* the index of the first element of s in set cs, or 0
RECURSIVE IndexAny(_, _, _)
IndexAny(s, cs, i) ==
    IF i > Len(s) THEN 0
    ELSE IF s[i] \in cs THEN i
    ELSE IndexAny(s, cs, i + 1)

\* bytes.Split(s, sep) for a separator of one byte
RECURSIVE Split(_, _)
Split(s, sep) ==
    LET i == IndexAny(s, {sep}, 1)
    IN  IF i = 0 THEN <<s>>
        ELSE <<SubSeq(s, 1, i - 1)>> \o Split(SubSeq(s, i + 1, Len(s)), sep)

\* bytes.Fields(s)
RECURSIVE Fields(_)
Fields(s) ==
    IF s = <<>> THEN <<>>
    ELSE IF Head(s) \in WhiteSpace THEN Fields(Tail(s))
    ELSE LET i == IndexAny(s, WhiteSpace, 1)
         IN  IF i = 0 THEN <<s>>
             ELSE <<SubSeq(s, 1, i - 1)>> \o Fields(SubSeq(s, i, Len(s)))

\* bytes.TrimSpace(s)
RECURSIVE TrimSpace(_)
TrimSpace(s) ==
    IF s = <<>> THEN s
    ELSE IF Head(s) \in WhiteSpace THEN TrimSpace(Tail(s))
    ELSE IF s[Len(s)] \in WhiteSpace THEN TrimSpace(SubSeq(s, 1, Len(s) - 1))
    ELSE s

\* bytes.HasPrefix(s, prefix)
HasPrefix(s, prefix) ==
    Len(s) >= Len(prefix) /\ SubSeq(s, 1, Len(prefix)) = prefix

\* bytes.HasSuffix(s, suffix)
HasSuffix(s, suffix) ==
    /\ Len(s) >= Len(suffix)
    /\ SubSeq(s, Len(s) - Len(suffix) + 1, Len(s)) = suffix

DigitChars == <<"0", "1", "2", "3", "4", "5", "6", "7", "8", "9">>

\* ch - '0' for a decimal digit
DigitVal(ch) == (CHOOSE i \in 1..10 : DigitChars[i] = ch) - 1

IsDigit(ch) == \E i \in 1..10 : DigitChars[i] = ch

\* n = n*10 + int(ch) over the digits of s
RECURSIVE DigitsVal(_, _)
DigitsVal(s, n) ==
    IF s = <<>> THEN n ELSE DigitsVal(Tail(s), n * 10 + DigitVal(Head(s)))

\* strconv.Atoi(s), for text short enough for its fast path
Atoi(s) ==
    LET signed == s # <<>> /\ Head(s) \in {"-", "+"}
        ds == IF signed THEN Tail(s) ELSE s
    IN  IF ds = <<>> \/ \E i \in 1..Len(ds) : ~IsDigit(ds[i])
        THEN [ok |-> FALSE, n |-> 0]
        ELSE [ok |-> TRUE,
              n |-> IF Head(s) = "-" THEN 0 - DigitsVal(ds, 0)
                    ELSE DigitsVal(ds, 0)]

viewLineFields == 5

viewLineNetField == 4

viewNetFieldPrefix == <<"{">>

viewNetFieldSuffix == <<";", "}", ";", "}", ";">>

viewNetFieldSep == ";"

viewSubnetDelimite == "/"

viewIpaddrDelimite == "."

----------------------------------------------------------------------------
(* The loader.  A view value vw is [nodes, infos, calls, lineNum]: the     *)
(* heaps, the history of viewInsert calls and v.lineNum.                   *)

\* the loop of viewSubnet and of Lookup over the four fields of an address:
\* the netaddr, or <<>> when strconv.Atoi fails on one
ParseOctets(ipfs) ==
    IF \A i \in 1..4 : Atoi(ipfs[i]).ok
    THEN [i \in 1..4 |-> Uint8(Atoi(ipfs[i]).n)]
    ELSE <<>>

\* the call of viewInsert that ends viewSubnet; its return value is dropped
SubnetInsert(vw, netaddr, mask, area, subnet) ==
    LET info == Len(vw.infos) + 1
        unetaddr == viewUintAddr(netaddr)
        r == viewInsert(vw.nodes, unetaddr, mask, info)
    IN  [vw EXCEPT
           !.infos = Append(@, [area |-> area, subnet |-> subnet]),
           !.nodes = r.nodes,
           !.calls = Append(@, [unetaddr |-> unetaddr, mask |-> mask,
                                info |-> info, err |-> r.err,
                                created |-> Len(r.nodes) - Len(vw.nodes),
                                line |-> vw.lineNum])]

\* mutant of viewSubnet: the error of viewInsert is returned
viewSubnetChecked(vw, subnet, area) ==
    LET netfs == Split(subnet, viewSubnetDelimite)
        ipfs == Split(netfs[1], viewIpaddrDelimite)
        netaddr == ParseOctets(ipfs)
        mask == Atoi(netfs[2])
        after == SubnetInsert(vw, netaddr, mask.n, area, subnet)
    IN  IF Len(netfs) # 2 THEN [vw |-> vw, err |-> Err(errBadSubnet)]
        ELSE IF Len(ipfs) # 4 THEN [vw |-> vw, err |-> Err(errBadSubnet)]
        ELSE IF netaddr = <<>> THEN [vw |-> vw, err |-> Err(errBadSubnet)]
        ELSE IF ~mask.ok THEN [vw |-> vw, err |-> Err(errBadSubnet)]
        ELSE [vw |-> after, err |-> after.calls[Len(after.calls)].err]

viewSubnet(vw, subnet, area) ==
    LET netfs == Split(subnet, viewSubnetDelimite)
        ipfs == Split(netfs[1], viewIpaddrDelimite)
        netaddr == ParseOctets(ipfs)
        mask == Atoi(netfs[2])
    IN  IF Len(netfs) # 2 THEN [vw |-> vw, err |-> Err(errBadSubnet)]
        ELSE IF Len(ipfs) # 4 THEN [vw |-> vw, err |-> Err(errBadSubnet)]
        ELSE IF netaddr = <<>> THEN [vw |-> vw, err |-> Err(errBadSubnet)]
        ELSE IF ~mask.ok THEN [vw |-> vw, err |-> Err(errBadSubnet)]
        ELSE [vw |-> SubnetInsert(vw, netaddr, mask.n, area, subnet),
              err |-> NoErr]

\* the loop of viewLine over subNets, from index i
RECURSIVE LineSubnets(_, _, _, _)
LineSubnets(vw, subNets, area, i) ==
    IF i > Len(subNets) THEN [vw |-> vw, err |-> NoErr]
    ELSE LET r == viewSubnet(vw, subNets[i], area)
         IN  IF r.err # NoErr
             THEN [vw |-> r.vw, err |-> ErrAt(r.err.msg, vw.lineNum)]
             ELSE LineSubnets(r.vw, subNets, area, i + 1)

\* subNetBuf of viewLine: the net field without its prefix and suffix
SubNetBuf(field) ==
    LET a == IF HasPrefix(field, viewNetFieldPrefix)
             THEN SubSeq(field, 2, Len(field)) ELSE field
    IN  IF HasSuffix(field, viewNetFieldSuffix)
        THEN SubSeq(a, 1, Len(a) - Len(viewNetFieldSuffix)) ELSE a

viewLine(vw, line) ==
    LET fields == Fields(line)
    IN  IF Len(fields) # viewLineFields
        THEN [vw |-> vw, err |-> ErrAt(errBadLine, vw.lineNum)]
        ELSE LineSubnets(vw,
                         Split(SubNetBuf(fields[viewLineNetField + 1]),
                               viewNetFieldSep),
                         fields[2], 1)

\* the loop of Init over what is left of the file: reader.ReadBytes('\n')
\* returns the bytes up to and with the next '\n', or the rest and io.EOF
\* (a read that fails with another error is not modelled)
RECURSIVE InitLoop(_, _)
InitLoop(vw, data) ==
    LET i == IndexAny(data, {"\n"}, 1)
        eof == i = 0
        line == TrimSpace(IF eof THEN data ELSE SubSeq(data, 1, i))
        rest == IF eof THEN <<>> ELSE SubSeq(data, i + 1, Len(data))
        vn == [vw EXCEPT !.lineNum = @ + 1]
    IN  IF line = <<>>
        THEN IF eof THEN [vw |-> vn, err |-> NoErr] ELSE InitLoop(vn, rest)
        ELSE LET r == viewLine(vn, line)
             IN  IF r.err # NoErr THEN r
                 ELSE IF eof THEN [vw |-> r.vw, err |-> NoErr]
                 ELSE InitLoop(r.vw, rest)

\* Lookup(addr): the info found and the error
Lookup(ns, addr) ==
    LET ipfs == Split(addr, viewIpaddrDelimite)
        netaddr == ParseOctets(ipfs)
    IN  IF Len(ipfs) # 4 THEN [info |-> Nil, err |-> Err(errBadAddress)]
        ELSE IF netaddr = <<>> THEN [info |-> Nil, err |-> Err(errBadAddress)]
        ELSE [info |-> viewLookup(ns, viewUintAddr(netaddr)), err |-> NoErr]

----------------------------------------------------------------------------
(* Inputs of the direct calls *)

\* the trie stores the pointer and never reads the ViewInfo behind it
ViewInfos == {[area |-> <<"A">>, subnet |-> <<"n", "e", "t">>]}

NetAddrs == {<<10, 0, 0, 0>>, <<10, 1, 2, 3>>, <<138, 1, 2, 3>>}

Masks == {-1, 0, 8, 16, 32, 33}

\* the addresses looked up: those inserted, addresses that differ from
\* 10.1.2.3 in one bit (bit 0, 8, 15, 16, 23, 24 or 31: the last bit inside
\* and the first bit outside the prefixes /8, /16 and /32), and addresses
\* that share no octet with those inserted
Probes == {<<10, 0, 0, 0>>, <<10, 1, 2, 3>>, <<138, 1, 2, 3>>,
           <<10, 1, 2, 2>>, <<10, 1, 3, 3>>, <<10, 1, 130, 3>>,
           <<10, 0, 2, 3>>, <<10, 129, 2, 3>>, <<11, 1, 2, 3>>,
           <<138, 0, 0, 0>>, <<10, 2, 2, 3>>,
           <<0, 0, 0, 0>>, <<255, 255, 255, 255>>}

----------------------------------------------------------------------------
(* Inputs of the loader: configuration files and address texts *)

\* view A { match-clients {10.0.0.0/8;};};\nview B { match-clients {10.1.0.0/16;138.1.2.3/32;};};\n
NestedData ==
    <<"v", "i", "e", "w", " ", "A", " ", "{", " ", "m", "a", "t", "c", "h",
      "-", "c", "l", "i", "e", "n", "t", "s", " ", "{", "1", "0", ".", "0",
      ".", "0", ".", "0", "/", "8", ";", "}", ";", "}", ";", "\n", "v",
      "i", "e", "w", " ", "B", " ", "{", " ", "m", "a", "t", "c", "h", "-",
      "c", "l", "i", "e", "n", "t", "s", " ", "{", "1", "0", ".", "1", ".",
      "0", ".", "0", "/", "1", "6", ";", "1", "3", "8", ".", "1", ".", "2",
      ".", "3", "/", "3", "2", ";", "}", ";", "}", ";", "\n">>

\* view C { match-clients {10.1.2.3/16;0.0.0.0/0;};};\nview D { match-clients {10.0.0.0/8;11.0.0.0/8;};};
DupData ==
    <<"v", "i", "e", "w", " ", "C", " ", "{", " ", "m", "a", "t", "c", "h",
      "-", "c", "l", "i", "e", "n", "t", "s", " ", "{", "1", "0", ".", "1",
      ".", "2", ".", "3", "/", "1", "6", ";", "0", ".", "0", ".", "0", ".",
      "0", "/", "0", ";", "}", ";", "}", ";", "\n", "v", "i", "e", "w",
      " ", "D", " ", "{", " ", "m", "a", "t", "c", "h", "-", "c", "l", "i",
      "e", "n", "t", "s", " ", "{", "1", "0", ".", "0", ".", "0", ".", "0",
      "/", "8", ";", "1", "1", ".", "0", ".", "0", ".", "0", "/", "8", ";",
      "}", ";", "}", ";">>

\* view R { match-clients {10.0.0.0/33;0.0.0.0/0;10.0.0.0/-1;};};\n
RangeData ==
    <<"v", "i", "e", "w", " ", "R", " ", "{", " ", "m", "a", "t", "c", "h",
      "-", "c", "l", "i", "e", "n", "t", "s", " ", "{", "1", "0", ".", "0",
      ".", "0", ".", "0", "/", "3", "3", ";", "0", ".", "0", ".", "0", ".",
      "0", "/", "0", ";", "1", "0", ".", "0", ".", "0", ".", "0", "/", "-",
      "1", ";", "}", ";", "}", ";", "\n">>

\* view E { match-clients {138.1.0.0/16;10.0.0/8;11.0.0.0/8;};};\n\nview F { match-clients {12.0.0.0/8;};};\n
BadData ==
    <<"v", "i", "e", "w", " ", "E", " ", "{", " ", "m", "a", "t", "c", "h",
      "-", "c", "l", "i", "e", "n", "t", "s", " ", "{", "1", "3", "8", ".",
      "1", ".", "0", ".", "0", "/", "1", "6", ";", "1", "0", ".", "0", ".",
      "0", "/", "8", ";", "1", "1", ".", "0", ".", "0", ".", "0", "/", "8",
      ";", "}", ";", "}", ";", "\n", "\n", "v", "i", "e", "w", " ", "F",
      " ", "{", " ", "m", "a", "t", "c", "h", "-", "c", "l", "i", "e", "n",
      "t", "s", " ", "{", "1", "2", ".", "0", ".", "0", ".", "0", "/", "8",
      ";", "}", ";", "}", ";", "\n">>

\* \n \t\nview G { match-clients {266.0.0.0/8;};};\n
TruncData ==
    <<"\n", " ", "\t", "\n", "v", "i", "e", "w", " ", "G", " ", "{", " ",
      "m", "a", "t", "c", "h", "-", "c", "l", "i", "e", "n", "t", "s", " ",
      "{", "2", "6", "6", ".", "0", ".", "0", ".", "0", "/", "8", ";", "}",
      ";", "}", ";", "\n">>

\* view H {10.0.0.0/8;};};\n
ShortData ==
    <<"v", "i", "e", "w", " ", "H", " ", "{", "1", "0", ".", "0", ".", "0",
      ".", "0", "/", "8", ";", "}", ";", "}", ";", "\n">>

\* 10.1.2.3
Addr10_1_2_3 ==
    <<"1", "0", ".", "1", ".", "2", ".", "3">>

\* 10.2.2.3
Addr10_2_2_3 ==
    <<"1", "0", ".", "2", ".", "2", ".", "3">>

\* 138.1.2.3
Addr138_1_2_3 ==
    <<"1", "3", "8", ".", "1", ".", "2", ".", "3">>

\* 11.0.0.0
Addr11_0_0_0 ==
    <<"1", "1", ".", "0", ".", "0", ".", "0">>

\* 266.1.2.3
Addr266_1_2_3 ==
    <<"2", "6", "6", ".", "1", ".", "2", ".", "3">>

\* 1.2.3
AddrShort ==
    <<"1", ".", "2", ".", "3">>

\* 1.2.3.4.5
AddrLong ==
    <<"1", ".", "2", ".", "3", ".", "4", ".", "5">>

\* a.b.c.d
AddrAlpha ==
    <<"a", ".", "b", ".", "c", ".", "d">>

Files ==
    {[name |-> "nested.conf", exists |-> TRUE, data |-> NestedData],
     [name |-> "dup.conf", exists |-> TRUE, data |-> DupData],
     [name |-> "range.conf", exists |-> TRUE, data |-> RangeData],
     [name |-> "bad.conf", exists |-> TRUE, data |-> BadData],
     [name |-> "trunc.conf", exists |-> TRUE, data |-> TruncData],
     [name |-> "short.conf", exists |-> TRUE, data |-> ShortData],
     [name |-> "missing.conf", exists |-> FALSE, data |-> <<>>]}

AddrTexts ==
    {Addr10_1_2_3, Addr10_2_2_3, Addr138_1_2_3, Addr11_0_0_0, Addr266_1_2_3,
     AddrShort, AddrLong, AddrAlpha}

----------------------------------------------------------------------------
(* State machine of the trie: viewInsert and viewLookup called directly *)

\* New()
Init ==
    /\ nodes = <<NewNode>>
    /\ infos = <<>>
    /\ lineNum = 0
    /\ fileName = ""
    /\ calls = <<>>
    /\ ret = [op |-> "New", err |-> NoErr, info |-> Nil]
    /\ quad = <<0, 0, 0, 0>>
    /\ packed = {}

\* v.viewInsert(viewUintAddr(netaddr), mask, &ViewInfo{...})
Insert(netaddr, mask, vi) ==
    /\ Len(calls) < MaxInserts
    /\ LET vw == SubnetInsert([nodes |-> nodes, infos |-> infos,
                               calls |-> calls, lineNum |-> lineNum],
                              netaddr, mask, vi.area, vi.subnet)
       IN  /\ nodes' = vw.nodes
           /\ infos' = vw.infos
           /\ calls' = vw.calls
           /\ ret' = [op |-> "viewInsert", err |-> vw.calls[Len(vw.calls)].err,
                      info |-> Nil]
    /\ UNCHANGED <<lineNum, fileName, quad, packed>>

\* v.viewLookup(viewUintAddr(netaddr))
LookupAddr(netaddr) ==
    /\ ret' = [op |-> "viewLookup", err |-> NoErr,
               info |-> viewLookup(nodes, viewUintAddr(netaddr))]
    /\ UNCHANGED <<nodes, infos, lineNum, fileName, calls, quad, packed>>

Next ==
    \/ \E netaddr \in NetAddrs, mask \in Masks, vi \in ViewInfos :
           Insert(netaddr, mask, vi)
    \/ \E netaddr \in Probes : LookupAddr(netaddr)

Spec == Init /\ [][Next]_vars

----------------------------------------------------------------------------
(* State machine of the package: Init and Lookup *)

\* v.Init(fileName)
InitFile(file) ==
    /\ lineNum < MaxLineNum
    /\ IF ~file.exists
       THEN /\ ret' = [op |-> "Init", err |-> Err(errOpen), info |-> Nil]
            /\ UNCHANGED <<nodes, infos, lineNum, fileName, calls>>
       ELSE LET r == InitLoop([nodes |-> nodes, infos |-> infos,
                               calls |-> calls, lineNum |-> lineNum],
                              file.data)
            IN  /\ fileName' = file.name
                /\ nodes' = r.vw.nodes
                /\ infos' = r.vw.infos
                /\ calls' = r.vw.calls
                /\ lineNum' = r.vw.lineNum
                /\ ret' = [op |-> "Init", err |-> r.err, info |-> Nil]
    /\ UNCHANGED <<quad, packed>>

\* v.Lookup(addr)
LookupText(addr) ==
    /\ LET r == Lookup(nodes, addr)
       IN  ret' = [op |-> "Lookup", err |-> r.err, info |-> r.info]
    /\ UNCHANGED <<nodes, infos, lineNum, fileName, calls, quad, packed>>

NextLoad ==
    \/ \E file \in Files : InitFile(file)
    \/ \E addr \in AddrTexts : LookupText(addr)

SpecLoad == Init /\ [][NextLoad]_vars

----------------------------------------------------------------------------
(* State machine of the codec: viewUintAddr applied to four netaddr *)

\* every single bit of a byte, no bit, all bits, and two mixed values
Octets == {0, 1, 2, 4, 8, 16, 32, 64, 128, 255, 10, 138}

InitCodec ==
    /\ nodes = <<NewNode>>
    /\ infos = <<>>
    /\ lineNum = 0
    /\ fileName = ""
    /\ calls = <<>>
    /\ ret = [op |-> "New", err |-> NoErr, info |-> Nil]
    /\ quad \in [1..4 -> Octets]
    /\ packed = {}

\* packed := viewUintAddr(quad)
UintAddr ==
    /\ ret.op = "New"
    /\ packed' = viewUintAddr(quad)
    /\ ret' = [op |-> "viewUintAddr", err |-> NoErr, info |-> Nil]
    /\ UNCHANGED <<nodes, infos, lineNum, fileName, calls, quad>>

NextCodec == UintAddr

SpecCodec == InitCodec /\ [][NextCodec]_vars

----------------------------------------------------------------------------
(* What the claims speak of, stated over the history of viewInsert calls.  *)
(* A prefix is the first mask bits of an address, bit 31 first.            *)

Calls == 1..Len(calls)

Succeeded(i) == calls[i].err = NoErr

Rejected(i) == calls[i].err = Err(errDupNet)

InRange(i) == calls[i].mask \in 0..AddrBits

\* addresses a and b agree on their first len bits
SameBits(a, b, len) ==
    \A k \in BitPos : k >= AddrBits - len => (k \in a <=> k \in b)

\* the prefix of call i is a bit-prefix of address u
Covers(i, u) == SameBits(calls[i].unetaddr, u, calls[i].mask)

\* calls i and j give the same prefix: the same length, the same first bits
SamePrefix(i, j) ==
    /\ calls[i].mask = calls[j].mask
    /\ SameBits(calls[i].unetaddr, calls[j].unetaddr, calls[i].mask)

\* the prefix of call i is a strict bit-prefix of the prefix of call j
StrictPrefix(i, j) ==
    /\ calls[i].mask < calls[j].mask
    /\ SameBits(calls[i].unetaddr, calls[j].unetaddr, calls[i].mask)

\* the depth of the node a call ends at
Depth(i) == IF calls[i].mask > 0 THEN calls[i].mask ELSE 0

\* calls i and j end at the same node of the trie
SameTarget(i, j) ==
    /\ Depth(i) = Depth(j)
    /\ SameBits(calls[i].unetaddr, calls[j].unetaddr, Depth(i))

\* the node at depth d on the path of address u (from node, at depth k):
\* at depth k the path goes right iff bit 31-k of u is set
RECURSIVE PathNode(_, _, _, _)
PathNode(u, node, k, d) ==
    IF k = d \/ node = Nil THEN node
    ELSE PathNode(u,
                  IF (AddrBits - 1 - k) \in u
                  THEN nodes[node].right ELSE nodes[node].left,
                  k + 1, d)

\* the node call i ends at
Target(i) == PathNode(calls[i].unetaddr, Root, 0, Depth(i))

ProbeAddrs == {viewUintAddr(p) : p \in Probes}

\* the successful calls whose prefix covers u and is longer than call i's
Deeper(i, u) ==
    {k \in Calls :
        Succeeded(k) /\ Covers(k, u) /\ calls[k].mask > calls[i].mask}

\* height of the subtree at node n: the number of links on its longest path
RECURSIVE Height(_)
Height(n) ==
    IF n = Nil THEN -1
    ELSE LET l == Height(nodes[n].left)
             r == Height(nodes[n].right)
         IN  1 + (IF l > r THEN l ELSE r)

----------------------------------------------------------------------------
(* C1 *)

NonDuplicate == \A i, j \in Calls : i < j => ~SamePrefix(i, j)

Matching(u) == {i \in Calls : Covers(i, u)}

Longest(M) == CHOOSE i \in M : \A j \in M : calls[j].mask <= calls[i].mask

\* C1: after Insert calls with pairwise non-duplicate prefixes of lengths
\* 0..32, viewLookup of any address returns the entry of the longest of the
\* prefixes that are bit-prefixes of the address, and nil when there is none.
LongestPrefixMatch ==
    ((\A i \in Calls : InRange(i)) /\ NonDuplicate) =>
        \A u \in ProbeAddrs :
            viewLookup(nodes, u) =
                IF Matching(u) = {} THEN Nil
                ELSE calls[Longest(Matching(u))].info

\* a lookup that had two prefixes to choose from and returned the longer
\* one's entry, and an address that no prefix covers
LongestPrefixMatchWitness ==
    /\ Len(calls) >= 2
    /\ \A i \in Calls : InRange(i)
    /\ NonDuplicate
    /\ ret.op = "viewLookup"
    /\ \E u \in ProbeAddrs :
           /\ Cardinality(Matching(u)) >= 2
           /\ ret.info = calls[Longest(Matching(u))].info
           /\ viewLookup(nodes, u) = ret.info
    /\ \E u \in ProbeAddrs : Matching(u) = {}

----------------------------------------------------------------------------
(* C2 *)

\* C2: an Insert with the address and prefix length of an earlier successful
\* Insert fails with errDupNet and overwrites nothing: the node still holds
\* the first entry, every address that resolves to that node gets the first
\* entry, and no lookup returns the second.
DuplicateRejected ==
    \A i, j \in Calls :
        (i < j /\ Succeeded(i) /\ calls[i].unetaddr = calls[j].unetaddr
               /\ calls[i].mask = calls[j].mask) =>
            /\ Rejected(j)
            /\ nodes[Target(i)].vinfo = calls[i].info
            /\ \A n \in 1..Len(nodes) : nodes[n].vinfo # calls[j].info
            /\ \A u \in ProbeAddrs :
                   /\ viewLookup(nodes, u) # calls[j].info
                   /\ (Covers(i, u) /\ Deeper(i, u) = {}) =>
                          viewLookup(nodes, u) = calls[i].info

\* the same address and length inserted twice, then a lookup that returned
\* the first entry
DuplicateRejectedWitness ==
    /\ ret.op = "viewLookup"
    /\ \E i, j \in Calls :
           /\ i < j /\ Succeeded(i) /\ Rejected(j)
           /\ calls[i].unetaddr = calls[j].unetaddr
           /\ calls[i].mask = calls[j].mask
           /\ ret.info = calls[i].info

----------------------------------------------------------------------------
(* C3 *)

\* C3: of two prefixes of lengths 0..32, one a strict bit-prefix of the
\* other, inserted in either order, each Insert succeeds unless an earlier
\* call already ended at its node; when both have succeeded both entries stay
\* at their own nodes, an address under the longer prefix gets the longer
\* one's entry and an address under the shorter prefix alone gets the shorter
\* one's entry (unless a third, still longer, prefix covers the address).
NestedCoexist ==
    \A s, l \in Calls :
        (InRange(s) /\ InRange(l) /\ StrictPrefix(s, l)) =>
            /\ \A i \in {s, l} :
                   (\A k \in Calls : k < i => ~SameTarget(k, i)) => Succeeded(i)
            /\ (Succeeded(s) /\ Succeeded(l)) =>
                   /\ Target(s) # Target(l)
                   /\ nodes[Target(s)].vinfo = calls[s].info
                   /\ nodes[Target(l)].vinfo = calls[l].info
                   /\ \A u \in ProbeAddrs :
                          /\ (Covers(l, u) /\ Deeper(l, u) = {}) =>
                                 viewLookup(nodes, u) = calls[l].info
                          /\ (/\ Covers(s, u) /\ ~Covers(l, u)
                              /\ Deeper(s, u) = {}) =>
                                 viewLookup(nodes, u) = calls[s].info

\* the longer prefix was inserted first, both calls succeeded, and a lookup
\* of an address under the shorter prefix alone returned the shorter's entry
NestedCoexistWitness ==
    /\ ret.op = "viewLookup"
    /\ \E s, l \in Calls :
           /\ l < s /\ InRange(s) /\ InRange(l) /\ StrictPrefix(s, l)
           /\ calls[s].mask > 0
           /\ Succeeded(s) /\ Succeeded(l)
           /\ ret.info = calls[s].info
           /\ \E u \in ProbeAddrs :
                  /\ Covers(s, u) /\ ~Covers(l, u)
                  /\ viewLookup(nodes, u) = calls[s].info
           /\ \E u \in ProbeAddrs : viewLookup(nodes, u) = calls[l].info

----------------------------------------------------------------------------
(* C4 *)

\* C4: a successful Insert with prefix length 0 creates no node and attaches
\* its entry to the root; from then on every address that no successful
\* longer prefix covers looks up to that entry, so every address does when
\* the call is the only successful one.
DefaultCatchAll ==
    \A i \in Calls :
        (calls[i].mask = 0 /\ Succeeded(i)) =>
            /\ calls[i].created = 0
            /\ nodes[Root].vinfo = calls[i].info
            /\ \A u \in ProbeAddrs :
                   Deeper(i, u) = {} => viewLookup(nodes, u) = calls[i].info
            /\ (\A k \in Calls : Succeeded(k) => k = i) =>
                   \A u \in ProbeAddrs : viewLookup(nodes, u) = calls[i].info

\* a prefix of length 0 and a longer one are in the trie, and a lookup of an
\* address outside the longer one returned the default entry
DefaultCatchAllWitness ==
    /\ ret.op = "viewLookup"
    /\ \E i, k \in Calls :
           /\ calls[i].mask = 0 /\ Succeeded(i)
           /\ calls[k].mask > 0 /\ Succeeded(k)
           /\ ret.info = calls[i].info
           /\ \E u \in ProbeAddrs :
                  Covers(k, u) /\ viewLookup(nodes, u) = calls[k].info

----------------------------------------------------------------------------
(* C7 *)

\* C7: a viewInsert call that returns errDupNet leaves the trie as it was:
\* the same nodes, links and entries.
FailedInsertChangesNothing ==
    [][(/\ Len(calls') = Len(calls) + 1
        /\ calls'[Len(calls')].err = Err(errDupNet)) => nodes' = nodes]_vars

\* a call has just failed with errDupNet on a trie that has more than its root
FailedInsertWitness ==
    /\ ret.op = "viewInsert"
    /\ ret.err = Err(errDupNet)
    /\ Rejected(Len(calls))
    /\ Len(nodes) > 1

----------------------------------------------------------------------------
(* C8 *)

\* C8: in every step no node is removed, no link that is set changes, a link
\* that becomes set points to a node created in that step, and an entry that
\* is attached stays the same entry; a step that is no Insert changes no node.
NodesPermanent ==
    [][/\ Len(nodes') >= Len(nodes)
       /\ \A n \in 1..Len(nodes) :
              /\ nodes[n].left # Nil => nodes'[n].left = nodes[n].left
              /\ nodes[n].right # Nil => nodes'[n].right = nodes[n].right
              /\ nodes[n].vinfo # Nil => nodes'[n].vinfo = nodes[n].vinfo
              /\ nodes'[n].left # nodes[n].left => nodes'[n].left > Len(nodes)
              /\ nodes'[n].right # nodes[n].right =>
                     nodes'[n].right > Len(nodes)
       /\ calls' = calls => nodes' = nodes]_vars

\* the first call attached an entry, the second call branched off its path
\* below the root and created nodes, and the first entry is still in place
NodesPermanentWitness ==
    /\ Len(calls) >= 2
    /\ Succeeded(1) /\ Succeeded(2)
    /\ calls[2].created > 0
    /\ calls[2].created < calls[2].mask
    /\ nodes[Target(1)].vinfo = calls[1].info
    /\ ret.op = "viewLookup"

----------------------------------------------------------------------------
(* C5 *)

\* C5: every viewInsert call the loader makes passes a prefix length in
\* 0..32, and no node of the trie lies deeper than 32.
PrefixLengthValidated ==
    /\ \A i \in Calls : InRange(i)
    /\ Height(Root) <= AddrBits

----------------------------------------------------------------------------
(* C6 *)

\* the number of subnet expressions in a file whose lines are well formed:
\* each holds one "/" and nothing else does
RECURSIVE SubnetCount(_)
SubnetCount(data) ==
    IF data = <<>> THEN 0
    ELSE (IF Head(data) = viewSubnetDelimite THEN 1 ELSE 0)
         + SubnetCount(Tail(data))

\* C6: Init never returns errDupNet; a call that viewInsert rejected leaves
\* the node with the entry, and so the area, of the earlier call that bound
\* it; and an Init that returns no error has called viewInsert for every
\* subnet expression of the file, those after a rejected one included.
DuplicateSwallowed ==
    /\ [](/\ ret.err.msg # errDupNet
          /\ \A j \in Calls :
                 Rejected(j) =>
                     \E i \in Calls :
                         /\ i < j /\ Succeeded(i) /\ SameTarget(i, j)
                         /\ nodes[Target(j)].vinfo = calls[i].info
                         /\ infos[nodes[Target(j)].vinfo].area
                                = infos[calls[i].info].area)
    /\ [][\A file \in Files :
              (/\ ret'.op = "Init" /\ ret'.err = NoErr
               /\ lineNum' > lineNum /\ fileName' = file.name) =>
                  Len(calls') = Len(calls) + SubnetCount(file.data)]_vars

\* Init has returned no error although viewInsert rejected a subnet of an
\* area already bound to another; the subnet after it on the same line and
\* a subnet on the next line were inserted
DuplicateSwallowedWitness ==
    /\ ret.op = "Init"
    /\ ret.err = NoErr
    /\ \E j, k, m \in Calls :
           /\ Rejected(j)
           /\ \E i \in Calls : /\ i < j /\ SameTarget(i, j)
                               /\ infos[calls[i].info].area
                                      # infos[calls[j].info].area
           /\ j < k /\ calls[k].line = calls[j].line /\ Succeeded(k)
           /\ calls[m].line = calls[j].line + 1 /\ Succeeded(m)

----------------------------------------------------------------------------
(* C9 *)

\* the value of bits lo .. lo+n-1 of a uint32: (u >> lo) & (2^n - 1)
RECURSIVE Field(_, _, _)
Field(u, lo, n) ==
    IF n = 0 THEN 0
    ELSE (IF lo \in u THEN 1 ELSE 0) + 2 * Field(u, lo + 1, n - 1)

\* C9: for octets o0..o3 in 0..255 the packed address is
\* o0*2^24 + o1*2^16 + o2*2^8 + o3, stated on its two 16-bit halves
\* (2^16 * (o0*2^8 + o1) + (o2*2^8 + o3)), and its four bytes taken from the
\* most significant down are o0..o3.
CodecRoundTrip ==
    ret.op = "viewUintAddr" =>
        /\ packed \subseteq BitPos
        /\ Field(packed, 16, 16) = quad[1] * 256 + quad[2]
        /\ Field(packed, 0, 16) = quad[3] * 256 + quad[4]
        /\ <<Field(packed, 24, 8), Field(packed, 16, 8),
             Field(packed, 8, 8), Field(packed, 0, 8)>> = quad

\* 138.1.2.255 has been packed
CodecRoundTripWitness ==
    /\ ret.op = "viewUintAddr"
    /\ quad = <<138, 1, 2, 255>>
    /\ packed = {31, 27, 25, 16, 9} \cup 0..7

----------------------------------------------------------------------------
(* C10 *)

\* C10: an Insert with the prefix length L and the first L address bits of
\* an earlier successful Insert fails with errDupNet, whatever the later
\* bits, the node keeps the first entry and no lookup returns the second;
\* and an Insert fails with errDupNet only if an earlier successful Insert
\* had the same L and the same first L bits.
HostBitsIgnored ==
    \A j \in Calls :
        /\ \A i \in Calls :
               (i < j /\ Succeeded(i) /\ SamePrefix(i, j)) =>
                   /\ Rejected(j)
                   /\ nodes[Target(i)].vinfo = calls[i].info
                   /\ \A u \in ProbeAddrs : viewLookup(nodes, u) # calls[j].info
        /\ Rejected(j) =>
               \E i \in Calls : i < j /\ Succeeded(i) /\ SamePrefix(i, j)

====
